---- MODULE Spec2Model ----
\* Model of api.go: one call of Client.sendRequest or Client.sendStreamRequest.
\* Strings are sequences of string tokens (the empty string is <<>>), so that
\* concatenation, prefixes and trimming are computed and not assumed.
EXTENDS Integers, Sequences, FiniteSets, TLC

VARIABLES mode, pc, idOrg, callerHeader, reqHeader, v, dest, res, bodyLog,
          err, output, prevText, lines, emitted, exit, tail

vars == <<mode, pc, idOrg, callerHeader, reqHeader, v, dest, res, bodyLog,
          err, output, prevText, lines, emitted, exit, tail>>

\* ---------------------------------------------------------------- bounds
\* Largest number of complete lines the body delivers in one streaming call.
MaxLines == 3

\* ---------------------------------------------------------------- strings
Spaces == {" ", "\t", "\r", "\n"}

RECURSIVE TrimLeft(_)
TrimLeft(s) ==
    IF Len(s) > 0 /\ Head(s) \in Spaces THEN TrimLeft(Tail(s)) ELSE s

RECURSIVE TrimRight(_)
TrimRight(s) ==
    IF Len(s) > 0 /\ s[Len(s)] \in Spaces
    THEN TrimRight(SubSeq(s, 1, Len(s) - 1)) ELSE s

\* bytes.TrimSpace
TrimSpace(s) == TrimRight(TrimLeft(s))

\* bytes.HasPrefix
HasPrefix(s, p) == Len(s) >= Len(p) /\ SubSeq(s, 1, Len(p)) = p

\* bytes.TrimPrefix
TrimPrefix(s, p) == IF HasPrefix(s, p) THEN SubSeq(s, Len(p) + 1, Len(s)) ELSE s

Digit(d) ==
    CASE d = 0 -> "0" [] d = 1 -> "1" [] d = 2 -> "2" [] d = 3 -> "3"
      [] d = 4 -> "4" [] d = 5 -> "5" [] d = 6 -> "6" [] d = 7 -> "7"
      [] d = 8 -> "8" [] d = 9 -> "9"

\* the %d verb of fmt: decimal digits of a non-negative integer
RECURSIVE Itoa(_)
Itoa(n) == IF n < 10 THEN <<Digit(n)>> ELSE Itoa(n \div 10) \o <<Digit(n % 10)>>

\* ---------------------------------------------------------------- client
authToken == <<"sk-token">>

OrgIds == {<<>>, <<"org-1">>}

\* ---------------------------------------------------------------- headers
HeaderNames == {"Accept", "Authorization", "Content-Type", "OpenAI-Organization"}

JSONType == <<"application/json; charset=utf-8">>

MultipartType == <<"multipart/form-data; boundary=", "xyz">>

\* http.Header.Get: the first value of the key, "" when there is none
Get(h, k) == IF Len(h[k]) > 0 THEN h[k][1] ELSE <<>>

\* http.Header.Set: replaces every value of the key by the one given
Set(h, k, val) == [h EXCEPT ![k] = <<val>>]

NoHeaders == [k \in HeaderNames |-> <<>>]

\* headers the caller may have put on the request before the call
MultipartHeaders == [NoHeaders EXCEPT !["Content-Type"] = <<MultipartType>>]

PresetHeaders ==
    [NoHeaders EXCEPT !["Content-Type"] = << <<>> >>,
                      !["Accept"] = << <<"text/plain">> >>,
                      !["Authorization"] = << <<"Basic ", "abc">> >>,
                      !["OpenAI-Organization"] = << <<"caller-org">> >>]

CallerHeaders == { NoHeaders, MultipartHeaders, PresetHeaders }

\* the calls explored: the caller's headers with the client's organization id
Calls ==
    { <<NoHeaders, <<>> >>, <<MultipartHeaders, <<"org-1">> >>,
      <<PresetHeaders, <<>> >>, <<PresetHeaders, <<"org-1">> >> }

sendRequest_HeadersOverwrite(h, org) ==
    LET h1 == Set(Set(h, "Accept", JSONType), "Authorization", <<"Bearer ">> \o authToken)
        h2 == Set(h1, "Content-Type", JSONType)
    IN  IF Len(org) > 0 THEN Set(h2, "OpenAI-Organization", org) ELSE h2

\* sendRequest, the headers it sets before the round trip
sendRequest_Headers(h, org) ==
    LET h1 == Set(Set(h, "Accept", JSONType), "Authorization", <<"Bearer ">> \o authToken)
        contentType == Get(h1, "Content-Type")
        h2 == IF contentType = <<>> THEN Set(h1, "Content-Type", JSONType) ELSE h1
    IN  IF Len(org) > 0 THEN Set(h2, "OpenAI-Organization", org) ELSE h2

sendStreamRequest_HeadersKeepAuth(h, org) ==
    LET h0 == Set(h, "Accept", JSONType)
        h1 == IF Get(h0, "Authorization") = <<>>
              THEN Set(h0, "Authorization", <<"Bearer ">> \o authToken) ELSE h0
        contentType == Get(h1, "Content-Type")
        h2 == IF contentType = <<>> THEN Set(h1, "Content-Type", JSONType) ELSE h1
    IN  IF Len(org) > 0 THEN Set(h2, "OpenAI-Organization", org) ELSE h2

\* sendStreamRequest, the headers it sets before the round trip
sendStreamRequest_Headers(h, org) ==
    LET h1 == Set(Set(h, "Accept", JSONType), "Authorization", <<"Bearer ">> \o authToken)
        contentType == Get(h1, "Content-Type")
        h2 == IF contentType = <<>> THEN Set(h1, "Content-Type", JSONType) ELSE h1
    IN  IF Len(org) > 0 THEN Set(h2, "OpenAI-Organization", org) ELSE h2

\* ---------------------------------------------------------------- errors
Nil == [kind |-> "nil", text |-> <<>>]

TransportErr == [kind |-> "transport", text |-> <<"dial tcp: connection refused">>]

EOF == [kind |-> "read", text |-> <<"EOF">>]

ReadErr == [kind |-> "read", text |-> <<"unexpected EOF">>]

UnaryDecodeErr == [kind |-> "decode", text |-> <<"json: cannot decode body">>]

StreamDecodeErr ==
    [kind |-> "decode", text |-> <<"invalid json stream data: ", "json: syntax error">>]

StatusOnlyErr(code) ==
    [kind |-> "status", text |-> <<"error, status code: ">> \o Itoa(code)]

StatusMessageErr(code, msg) ==
    [kind |-> "status",
     text |-> <<"error, status code: ">> \o Itoa(code) \o <<", message: ">> \o msg]

\* ---------------------------------------------------------------- responses
StatusOK == 200

StatusBadRequest == 400

Statuses == {100, 199, 200, 399, 400, 429, 500}

sendRequest_IsStatusErrorNo1xx(code) == code >= StatusBadRequest

sendRequest_IsStatusError(code) == code < StatusOK \/ code >= StatusBadRequest

sendStreamRequest_IsStatusErrorNo1xx(code) == code >= StatusBadRequest

sendStreamRequest_IsStatusError(code) == code < StatusOK \/ code >= StatusBadRequest

\* bodies that are one document (no newline), and the event stream
EventStream == "<event-stream>"

Bodies ==
    { "",
      "<html>",
      "{}",
      "{\"error\":null}",
      "{\"error\":{\"message\":\"rate limited\"}}",
      "{\"error\":{\"code\":\"x\"}}",
      "{\"error\":{\"message\":\"rate limited\"}" }

NoError == [present |-> FALSE, Message |-> <<>>]

\* json.NewDecoder(body).Decode(&errRes): fail tells whether Decode returned an
\* error, Error is the field as Decode left it (set before a later syntax error)
DecodeErrorResponse(body) ==
    CASE body = "{}" -> [fail |-> FALSE, Error |-> NoError]
      [] body = "{\"error\":null}" -> [fail |-> FALSE, Error |-> NoError]
      [] body = "{\"error\":{\"message\":\"rate limited\"}}" ->
            [fail |-> FALSE, Error |-> [present |-> TRUE, Message |-> <<"rate limited">>]]
      [] body = "{\"error\":{\"code\":\"x\"}}" ->
            [fail |-> FALSE, Error |-> [present |-> TRUE, Message |-> <<>>]]
      [] body = "{\"error\":{\"message\":\"rate limited\"}" ->
            [fail |-> TRUE, Error |-> [present |-> TRUE, Message |-> <<"rate limited">>]]
      [] OTHER -> [fail |-> TRUE, Error |-> NoError]

sendRequest_ErrorDecoderIgnoreFail(code, body) ==
    LET d == DecodeErrorResponse(body)
    IN  IF ~d.Error.present THEN StatusOnlyErr(code)
        ELSE StatusMessageErr(code, d.Error.Message)

\* the status-error branch of sendRequest
sendRequest_ErrorDecoder(code, body) ==
    LET d == DecodeErrorResponse(body)
    IN  IF d.fail \/ ~d.Error.present THEN StatusOnlyErr(code)
        ELSE StatusMessageErr(code, d.Error.Message)

sendStreamRequest_ErrorDecoderNilOnNoError(code, body) ==
    LET d == DecodeErrorResponse(body)
    IN  IF d.fail THEN StatusOnlyErr(code)
        ELSE IF ~d.Error.present THEN Nil
        ELSE StatusMessageErr(code, d.Error.Message)

\* the status-error branch of sendStreamRequest
sendStreamRequest_ErrorDecoder(code, body) ==
    LET d == DecodeErrorResponse(body)
    IN  IF d.fail \/ ~d.Error.present THEN StatusOnlyErr(code)
        ELSE StatusMessageErr(code, d.Error.Message)

\* json.NewDecoder(body).Decode(&v) on the success path of sendRequest
UnaryDecodeFails(body) ==
    body \in {"", "<html>", "{\"error\":{\"message\":\"rate limited\"}", EventStream}

NoRes == [StatusCode |-> 0, Body |-> ""]

\* ---------------------------------------------------------------- stream
dataPrefix == <<"data:", " ">>

doneSequence == <<"[DONE]">>

FrameHello == "{\"choices\":[{\"text\":\"Hello\"}]}"

FrameWorld == "{\"choices\":[{\"text\":\", world\"}]}"

FrameNoChoices == "{\"id\":\"cmpl-1\"}"

FrameEmptyChoices == "{\"choices\":[]}"

FrameNoText == "{\"choices\":[{\"index\":0}]}"

FrameTwoChoices == "{\"choices\":[{\"text\":\"a\"},{\"text\":\"b\"}]}"

FrameTwoChoicesMore == "{\"choices\":[{\"text\":\"c\"},{\"text\":\"d\"}]}"

FrameTruncated == "{\"choices\":[{\"text\":\"X\"}]"

FrameGarbage == "{bad"

WellFormedFrames ==
    {FrameHello, FrameWorld, FrameNoChoices, FrameEmptyChoices, FrameNoText,
     FrameTwoChoices, FrameTwoChoicesMore}

MalformedFrames == {FrameTruncated, FrameGarbage}

DataLine(payload) == dataPrefix \o <<payload>>

\* lines of the body, without their final newline
NonDataLines == { <<>>, <<": ping">>, <<"data:", "[DONE]">> }

SentinelLines == { DataLine("[DONE]"), <<" ">> \o dataPrefix \o <<" ", "[DONE]", "x", "\r">> }

FrameLines == {DataLine(f) : f \in WellFormedFrames \cup MalformedFrames}

StreamLines == NonDataLines \cup SentinelLines \cup FrameLines

\* what may be left unterminated at the end of the body
Tails == { <<>>, DataLine("[DONE]") }

Txt(t) == [hasText |-> TRUE, text |-> t]

NoTxt == [hasText |-> FALSE, text |-> <<>>]

\* the JSON document of a payload token: fail tells whether the decoder
\* reports an error, the other fields are what it parsed before reporting it
ParseFrame(tok) ==
    CASE tok = FrameHello ->
            [fail |-> FALSE, hasChoices |-> TRUE, choices |-> <<Txt(<<"Hello">>)>>]
      [] tok = FrameWorld ->
            [fail |-> FALSE, hasChoices |-> TRUE, choices |-> <<Txt(<<", world">>)>>]
      [] tok = FrameNoChoices ->
            [fail |-> FALSE, hasChoices |-> FALSE, choices |-> <<>>]
      [] tok = FrameEmptyChoices ->
            [fail |-> FALSE, hasChoices |-> TRUE, choices |-> <<>>]
      [] tok = FrameNoText ->
            [fail |-> FALSE, hasChoices |-> TRUE, choices |-> <<NoTxt>>]
      [] tok = FrameTwoChoices ->
            [fail |-> FALSE, hasChoices |-> TRUE,
             choices |-> <<Txt(<<"a">>), Txt(<<"b">>)>>]
      [] tok = FrameTwoChoicesMore ->
            [fail |-> FALSE, hasChoices |-> TRUE,
             choices |-> <<Txt(<<"c">>), Txt(<<"d">>)>>]
      [] tok = FrameTruncated ->
            [fail |-> TRUE, hasChoices |-> TRUE, choices |-> <<Txt(<<"X">>)>>]
      [] OTHER ->
            [fail |-> TRUE, hasChoices |-> FALSE, choices |-> <<>>]

\* the document of a whole payload: one token, anything after it is an error
ParsePayload(payload) ==
    IF Len(payload) = 0
    THEN [fail |-> TRUE, hasChoices |-> FALSE, choices |-> <<>>]
    ELSE LET d == ParseFrame(payload[1])
         IN  [d EXCEPT !.fail = d.fail \/ Len(payload) > 1]

\* json.Unmarshal(line, &output), the value left in output: a field the
\* document lacks keeps its value; a choice the document gives without text
\* keeps the text of the element it is decoded into when the decoder reuses
\* the elements of the slice (reuse), and has the zero text otherwise
Unmarshal(doc, out, reuse) ==
    IF ~doc.hasChoices THEN out
    ELSE [Choices |->
            [i \in 1..Len(doc.choices) |->
                IF doc.choices[i].hasText THEN [Text |-> doc.choices[i].text]
                ELSE IF reuse /\ i <= Len(out.Choices) THEN out.Choices[i]
                ELSE [Text |-> <<>>]]]

CarryForwardStale(out, prev) == prev

\* if len(output.Choices) > 0 { prevText = output.Choices[0].Text }
CarryForward(out, prev) ==
    IF Len(out.Choices) > 0 THEN out.Choices[1].Text ELSE prev

MergeTextEveryChoice(out, prev) ==
    [out EXCEPT !.Choices = [i \in 1..Len(out.Choices) |->
                                [Text |-> prev \o out.Choices[i].Text]]]

\* if len(output.Choices) > 0 { output.Choices[0].Text = prevText + ... }
MergeText(out, prev) ==
    IF Len(out.Choices) > 0
    THEN [out EXCEPT !.Choices[1].Text = prev \o out.Choices[1].Text]
    ELSE out

\* the line as the loop sees it after the first trim
Trimmed(l) == TrimSpace(l \o <<"\n">>)

IsDataLineLoose(l) == HasPrefix(Trimmed(l), <<"data:">>)

IsDataLine(l) == HasPrefix(Trimmed(l), dataPrefix)

Payload(l) == TrimSpace(TrimPrefix(Trimmed(l), dataPrefix))

IsSentinelExact(l) == Payload(l) = doneSequence

IsSentinel(l) == HasPrefix(Payload(l), doneSequence)

sendRequest_Close(log) == Append(log, "close")

sendStreamRequest_CloseMissing(log) == log

\* defer res.Body.Close(), run when the function returns
sendStreamRequest_Close(log) == Append(log, "close")

\* ---------------------------------------------------------------- state
EmptyResponse == [Choices |-> <<>>]

Init ==
    /\ mode \in {"unary", "stream"}
    /\ pc = "init"
    /\ idOrg \in OrgIds
    /\ callerHeader \in CallerHeaders
    /\ <<callerHeader, idOrg>> \in Calls
    /\ reqHeader = callerHeader
    /\ v \in BOOLEAN
    /\ (mode = "stream" => v = FALSE)
    /\ dest = "untouched"
    /\ res = NoRes
    /\ bodyLog = <<>>
    /\ err = Nil
    /\ output = EmptyResponse
    /\ prevText = <<>>
    /\ lines = <<>>
    /\ emitted = <<>>
    /\ exit = "none"
    /\ tail = <<>>

\* ---------------------------------------------------------------- sendRequest
sendRequest_TransportFail ==
    /\ mode = "unary" /\ pc = "init"
    /\ reqHeader' = sendRequest_Headers(reqHeader, idOrg)
    /\ err' = TransportErr
    /\ pc' = "done"
    /\ exit' = "transport"
    /\ UNCHANGED <<mode, idOrg, callerHeader, v, dest, res, bodyLog, output,
                   prevText, lines, emitted, tail>>

sendRequest_Do ==
    /\ mode = "unary" /\ pc = "init"
    /\ reqHeader' = sendRequest_Headers(reqHeader, idOrg)
    /\ \E st \in Statuses, b \in Bodies \cup {EventStream} :
            res' = [StatusCode |-> st, Body |-> b]
    /\ err' = Nil
    /\ pc' = "status"
    /\ UNCHANGED <<mode, idOrg, callerHeader, v, dest, bodyLog, output,
                   prevText, lines, emitted, exit, tail>>

sendRequest_StatusError ==
    /\ mode = "unary" /\ pc = "status"
    /\ sendRequest_IsStatusError(res.StatusCode)
    /\ err' = sendRequest_ErrorDecoder(res.StatusCode, res.Body)
    /\ bodyLog' = sendRequest_Close(Append(bodyLog, "read"))
    /\ pc' = "done"
    /\ exit' = "status"
    /\ UNCHANGED <<mode, idOrg, callerHeader, reqHeader, v, dest, res, output,
                   prevText, lines, emitted, tail>>

sendRequest_Success ==
    /\ mode = "unary" /\ pc = "status"
    /\ ~sendRequest_IsStatusError(res.StatusCode)
    /\ IF v
       THEN /\ bodyLog' = sendRequest_Close(Append(bodyLog, "read"))
            /\ IF UnaryDecodeFails(res.Body)
               THEN /\ err' = UnaryDecodeErr
                    /\ dest' \in {"untouched", "partial"}
                    /\ exit' = "decodefail"
               ELSE /\ err' = Nil
                    /\ dest' = "decoded"
                    /\ exit' = "decoded"
       ELSE /\ bodyLog' = sendRequest_Close(bodyLog)
            /\ err' = Nil
            /\ dest' = dest
            /\ exit' = "nodest"
    /\ pc' = "done"
    /\ UNCHANGED <<mode, idOrg, callerHeader, reqHeader, v, res, output,
                   prevText, lines, emitted, tail>>

\* ---------------------------------------------------------------- sendStreamRequest
sendStreamRequest_TransportFailDefersClose ==
    /\ mode = "stream" /\ pc = "init"
    /\ reqHeader' = sendStreamRequest_Headers(reqHeader, idOrg)
    /\ err' = TransportErr
    /\ bodyLog' = sendStreamRequest_Close(bodyLog)
    /\ pc' = "done"
    /\ exit' = "transport"
    /\ UNCHANGED <<mode, idOrg, callerHeader, v, dest, res, output,
                   prevText, lines, emitted, tail>>

sendStreamRequest_TransportFail ==
    /\ mode = "stream" /\ pc = "init"
    /\ reqHeader' = sendStreamRequest_Headers(reqHeader, idOrg)
    /\ err' = TransportErr
    /\ pc' = "done"
    /\ exit' = "transport"
    /\ UNCHANGED <<mode, idOrg, callerHeader, v, dest, res, bodyLog, output,
                   prevText, lines, emitted, tail>>

sendStreamRequest_Do ==
    /\ mode = "stream" /\ pc = "init"
    /\ reqHeader' = sendStreamRequest_Headers(reqHeader, idOrg)
    /\ \E st \in Statuses, b \in Bodies \cup {EventStream} :
            res' = [StatusCode |-> st, Body |-> b]
    /\ err' = Nil
    /\ pc' = "status"
    /\ UNCHANGED <<mode, idOrg, callerHeader, v, dest, bodyLog, output,
                   prevText, lines, emitted, exit, tail>>

sendStreamRequest_StatusError ==
    /\ mode = "stream" /\ pc = "status"
    /\ sendStreamRequest_IsStatusError(res.StatusCode)
    /\ err' = sendStreamRequest_ErrorDecoder(res.StatusCode, res.Body)
    /\ bodyLog' = sendStreamRequest_Close(Append(bodyLog, "read"))
    /\ pc' = "done"
    /\ exit' = "status"
    /\ UNCHANGED <<mode, idOrg, callerHeader, reqHeader, v, dest, res, output,
                   prevText, lines, emitted, tail>>

\* reader := bufio.NewReader(res.Body); output = CompletionResponse{}
sendStreamRequest_Success ==
    /\ mode = "stream" /\ pc = "status"
    /\ ~sendStreamRequest_IsStatusError(res.StatusCode)
    /\ output' = EmptyResponse
    /\ prevText' = <<>>
    /\ pc' = "loop"
    /\ UNCHANGED <<mode, idOrg, callerHeader, reqHeader, v, dest, res, bodyLog,
                   err, lines, emitted, exit, tail>>

sendStreamRequest_ReadFailEOFOk ==
    /\ mode = "stream" /\ pc = "loop"
    /\ \/ res.Body = EventStream /\ err' = Nil /\ tail' \in Tails
       \/ res.Body = EventStream /\ err' = ReadErr /\ tail' = <<>>
       \/ res.Body # EventStream /\ err' = Nil /\ tail' = <<res.Body>>
    /\ bodyLog' = sendStreamRequest_Close(Append(bodyLog, "read"))
    /\ pc' = "done"
    /\ exit' = "readfail"
    /\ UNCHANGED <<mode, idOrg, callerHeader, reqHeader, v, dest, res, output,
                   prevText, lines, emitted>>

\* ReadBytes returns an error: the body ended (after an unterminated rest, which
\* is dropped) or the read failed
sendStreamRequest_ReadFail ==
    /\ mode = "stream" /\ pc = "loop"
    /\ \/ res.Body = EventStream /\ err' = EOF /\ tail' \in Tails
       \/ res.Body = EventStream /\ err' = ReadErr /\ tail' = <<>>
       \/ res.Body # EventStream /\ err' = EOF /\ tail' = <<res.Body>>
    /\ bodyLog' = sendStreamRequest_Close(Append(bodyLog, "read"))
    /\ pc' = "done"
    /\ exit' = "readfail"
    /\ UNCHANGED <<mode, idOrg, callerHeader, reqHeader, v, dest, res, output,
                   prevText, lines, emitted>>

\* a complete line arrives on the body
NextLine(l) ==
    /\ mode = "stream" /\ pc = "loop"
    /\ res.Body = EventStream
    /\ Len(lines) < MaxLines
    /\ l \in StreamLines
    /\ lines' = Append(lines, l)

sendStreamRequest_Skip ==
    \E l \in StreamLines :
        /\ NextLine(l)
        /\ ~IsDataLine(l)
        /\ err' = Nil
        /\ bodyLog' = Append(bodyLog, "read")
        /\ UNCHANGED <<mode, pc, idOrg, callerHeader, reqHeader, v, dest, res,
                       output, prevText, emitted, exit, tail>>

sendStreamRequest_DoneContinues ==
    \E l \in StreamLines :
        /\ NextLine(l)
        /\ IsDataLine(l)
        /\ IsSentinel(l)
        /\ err' = Nil
        /\ bodyLog' = Append(bodyLog, "read")
        /\ UNCHANGED <<mode, pc, idOrg, callerHeader, reqHeader, v, dest, res,
                       output, prevText, emitted, exit, tail>>

sendStreamRequest_Done ==
    \E l \in StreamLines :
        /\ NextLine(l)
        /\ IsDataLine(l)
        /\ IsSentinel(l)
        /\ err' = Nil
        /\ bodyLog' = sendStreamRequest_Close(Append(bodyLog, "read"))
        /\ pc' = "done"
        /\ exit' = "sentinel"
        /\ UNCHANGED <<mode, idOrg, callerHeader, reqHeader, v, dest, res,
                       output, prevText, emitted, tail>>

sendStreamRequest_DecodeFail ==
    \E l \in StreamLines, reuse \in BOOLEAN :
        /\ NextLine(l)
        /\ IsDataLine(l)
        /\ ~IsSentinel(l)
        /\ ParsePayload(Payload(l)).fail
        /\ prevText' = CarryForward(output, prevText)
        /\ output' = Unmarshal(ParsePayload(Payload(l)), output, reuse)
        /\ err' = StreamDecodeErr
        /\ bodyLog' = sendStreamRequest_Close(Append(bodyLog, "read"))
        /\ pc' = "done"
        /\ exit' = "decodefail"
        /\ UNCHANGED <<mode, idOrg, callerHeader, reqHeader, v, dest, res,
                       emitted, tail>>

sendStreamRequest_Frame ==
    \E l \in StreamLines, reuse \in BOOLEAN :
        /\ NextLine(l)
        /\ IsDataLine(l)
        /\ ~IsSentinel(l)
        /\ ~ParsePayload(Payload(l)).fail
        /\ prevText' = CarryForward(output, prevText)
        /\ output' = MergeText(Unmarshal(ParsePayload(Payload(l)), output, reuse),
                               prevText')
        /\ err' = Nil
        /\ emitted' = Append(emitted, output')
        /\ bodyLog' = Append(bodyLog, "read")
        /\ UNCHANGED <<mode, pc, idOrg, callerHeader, reqHeader, v, dest, res,
                       exit, tail>>

Next ==
    \/ sendRequest_TransportFail
    \/ sendRequest_Do
    \/ sendRequest_StatusError
    \/ sendRequest_Success
    \/ sendStreamRequest_TransportFail
    \/ sendStreamRequest_Do
    \/ sendStreamRequest_StatusError
    \/ sendStreamRequest_Success
    \/ sendStreamRequest_ReadFail
    \/ sendStreamRequest_Skip
    \/ sendStreamRequest_Done
    \/ sendStreamRequest_DecodeFail
    \/ sendStreamRequest_Frame

Spec == Init /\ [][Next]_vars

\* ---------------------------------------------------------------- reading the stream
\* The properties read the lines of the body on their own terms.
Last(s) == s[Len(s)]

FirstText(out) == IF Len(out.Choices) > 0 THEN out.Choices[1].Text ELSE <<>>

LastEmitted == IF Len(emitted) = 0 THEN EmptyResponse ELSE Last(emitted)

BeginsWithData(l) == HasPrefix(TrimSpace(l), dataPrefix)

PayloadOf(l) ==
    LET t == TrimSpace(l) IN TrimSpace(SubSeq(t, Len(dataPrefix) + 1, Len(t)))

CarriesSentinel(l) == BeginsWithData(l) /\ HasPrefix(PayloadOf(l), doneSequence)

IsFrameLine(l) == BeginsWithData(l) /\ ~CarriesSentinel(l)

IsAcceptedFrame(l) == IsFrameLine(l) /\ ~ParsePayload(PayloadOf(l)).fail

CarriesFirstText(l) ==
    LET d == ParsePayload(PayloadOf(l))
    IN  ~d.fail /\ d.hasChoices /\ Len(d.choices) > 0 /\ d.choices[1].hasText

\* the first-choice text fragment of a frame, empty when it carries none
Fragment(l) ==
    LET d == ParsePayload(PayloadOf(l))
    IN  IF d.hasChoices /\ Len(d.choices) > 0 /\ d.choices[1].hasText
        THEN d.choices[1].text ELSE <<>>

RECURSIVE ConcatFragments(_)
ConcatFragments(fs) ==
    IF Len(fs) = 0 THEN <<>> ELSE Fragment(Head(fs)) \o ConcatFragments(Tail(fs))

FrameLinesOf(ls) == SelectSeq(ls, IsFrameLine)

AcceptedFrames(ls) == SelectSeq(ls, IsAcceptedFrame)

IsPrefixOf(p, s) == Len(p) <= Len(s) /\ SubSeq(s, 1, Len(p)) = p

Returned == pc = "done"

LeftLoop == mode = "stream" /\ pc = "done" /\ exit \notin {"transport", "status"}

\* ---------------------------------------------------------------- properties

\* C1: after frames that each carry a first-choice text fragment and then the
\* sentinel line, sendStreamRequest returns a nil error and a result whose
\* first-choice text is the concatenation of the fragments in arrival order.
C1_FinalTextIsConcatenation ==
    ( /\ LeftLoop
      /\ Len(lines) > 0 /\ CarriesSentinel(Last(lines))
      /\ \A i \in 1..Len(lines) : IsFrameLine(lines[i]) => CarriesFirstText(lines[i]) )
    => ( /\ err = Nil
         /\ FirstText(output) = ConcatFragments(FrameLinesOf(lines)) )

C1_Witness ==
    /\ LeftLoop
    /\ lines = <<DataLine(FrameHello), DataLine(FrameWorld), DataLine("[DONE]")>>
    /\ FirstText(output) = <<"Hello", ", world">>
    /\ err = Nil

\* C2: onData is invoked once per accepted data frame, in arrival order, the
\* k-th time with the concatenation of fragments 1..k as first-choice text, so
\* each invocation's text has the previous invocation's text as a prefix.
C2_CallbackCumulative ==
    mode = "stream" =>
        /\ Len(emitted) = Len(AcceptedFrames(lines))
        /\ \A k \in 1..Len(emitted) :
              /\ k <= Len(AcceptedFrames(lines))
                    => FirstText(emitted[k])
                          = ConcatFragments(SubSeq(AcceptedFrames(lines), 1, k))
              /\ k > 1 => IsPrefixOf(FirstText(emitted[k - 1]), FirstText(emitted[k]))

\* C3: when the body ends or a read fails before a sentinel line was
\* processed, sendStreamRequest returns a non-nil error, and the result is
\* what was accumulated from the frames accepted so far (the empty result when
\* there were none).
C3_PrematureEndIsError ==
    (LeftLoop /\ ~(Len(lines) > 0 /\ CarriesSentinel(Last(lines)))
              /\ (Len(lines) = 0 \/ ~IsFrameLine(Last(lines)) \/ IsAcceptedFrame(Last(lines))))
    => ( /\ err # Nil
         /\ err.kind = "read"
         /\ output = LastEmitted
         /\ Len(emitted) = Len(AcceptedFrames(lines)) )

C3_Witness ==
    /\ LeftLoop /\ exit = "readfail"
    /\ Len(emitted) = 2
    /\ err = EOF
    /\ FirstText(output) = <<"Hello", ", world">>

\* C4: when a data frame fails to decode, sendStreamRequest returns a decode
\* error, does not invoke onData for that frame, and the returned result is
\* the one accumulated from the frames before it.
C4_DecodeFailureChangesNothing ==
    (LeftLoop /\ Len(lines) > 0 /\ IsFrameLine(Last(lines)) /\ ~IsAcceptedFrame(Last(lines)))
    => ( /\ err.kind = "decode"
         /\ Len(emitted) = Len(AcceptedFrames(lines))
         /\ output = LastEmitted )

\* C5: a step that consumes a line which, trimmed, does not begin with the
\* data prefix invokes no callback and changes nothing the rest of the call
\* depends on: result, carried text, error and position stay as they were.
C5_NonDataLineInert ==
    [][ (lines' # lines /\ ~BeginsWithData(Last(lines')))
        => /\ emitted' = emitted
           /\ output' = output
           /\ prevText' = prevText
           /\ err' = err
           /\ pc' = pc
           /\ exit' = exit
           /\ res' = res ]_vars

C5_Witness ==
    /\ LeftLoop /\ err = Nil
    /\ lines = <<DataLine(FrameHello), <<"data:", "[DONE]">>, DataLine("[DONE]")>>
    /\ Len(emitted) = 1
    /\ FirstText(output) = <<"Hello">>

\* C6: for a failing status the error text is 'error, status code: <code>,
\* message: <message>' when the body parses with its nested error object
\* present, and 'error, status code: <code>' when the body is empty,
\* unparsable or has no nested error object.
C6_StatusErrorText ==
    (Returned /\ exit = "status") =>
        /\ res.Body = "{\"error\":{\"message\":\"rate limited\"}}"
              => err.text = <<"error, status code: ">> \o Itoa(res.StatusCode)
                               \o <<", message: ", "rate limited">>
        /\ res.Body = "{\"error\":{\"code\":\"x\"}}"
              => err.text = <<"error, status code: ">> \o Itoa(res.StatusCode)
                               \o <<", message: ">>
        /\ res.Body \in {"", "<html>", "{}", "{\"error\":null}",
                         "{\"error\":{\"message\":\"rate limited\"}", EventStream}
              => err.text = <<"error, status code: ">> \o Itoa(res.StatusCode)
        /\ (res.StatusCode = 500 /\ res.Body = "")
              => err.text = <<"error, status code: ", "5", "0", "0">>

C6_Witness ==
    /\ Returned /\ exit = "status"
    /\ res.StatusCode = 429
    /\ res.Body = "{\"error\":{\"message\":\"rate limited\"}}"
    /\ err.text = <<"error, status code: ", "4", "2", "9", ", message: ", "rate limited">>

\* C7: a received response takes the status-error path exactly when its
\* status code is below 200 or at least 400; codes 200..399 go on to the
\* decode or to the stream loop.
C7_StatusClassification ==
    /\ (Returned /\ exit # "transport")
          => (exit = "status" <=> (res.StatusCode < 200 \/ res.StatusCode >= 400))
    /\ pc = "loop" => (res.StatusCode >= 200 /\ res.StatusCode < 400)
    /\ (Returned /\ exit = "status")
          => (err.kind = "status" /\ dest = "untouched" /\ emitted = <<>> /\ lines = <<>>)

C7_Witness ==
    /\ Returned /\ mode = "stream" /\ exit = "status"
    /\ res.StatusCode = 199

\* C8: whenever the transport returned a response, the body is closed exactly
\* once by the time the call returns, as the last operation on it, whatever
\* the exit path; nothing is read from it after the close.
C8_BodyClosedOnReturn ==
    /\ (Returned /\ exit # "transport")
          => /\ Len(bodyLog) > 0
             /\ Last(bodyLog) = "close"
             /\ \A i \in 1..(Len(bodyLog) - 1) : bodyLog[i] = "read"
    /\ ~Returned => \A i \in 1..Len(bodyLog) : bodyLog[i] = "read"

C8_Witness ==
    /\ Returned /\ mode = "unary" /\ exit = "nodest"
    /\ bodyLog = <<"close">>

\* C9: after a success status sendStreamRequest returns a nil error exactly
\* when the last line it processed was a data line whose trimmed payload
\* begins with the sentinel token.
C9_NilErrorIffSentinel ==
    LeftLoop => (err = Nil <=> (Len(lines) > 0 /\ CarriesSentinel(Last(lines))))

C9_Witness ==
    /\ LeftLoop /\ err = Nil
    /\ Len(lines) > 0
    /\ Last(lines) = <<" ">> \o dataPrefix \o <<" ", "[DONE]", "x", "\r">>

\* C10: once the request is dispatched, its Content-Type is the caller's when
\* the caller had set a non-empty one, and the JSON type when the caller had
\* left it empty.
C10_ContentTypePreserved ==
    pc # "init" =>
        IF Get(callerHeader, "Content-Type") # <<>>
        THEN reqHeader["Content-Type"] = callerHeader["Content-Type"]
        ELSE reqHeader["Content-Type"] = <<JSONType>>

C10_Witness ==
    /\ pc # "init"
    /\ callerHeader["Content-Type"] = <<MultipartType>>
    /\ reqHeader["Content-Type"] = <<MultipartType>>

\* C11: when the transport fails, the call returns the transport's error and
\* nothing else has happened: no response, no operation on a body, the unary
\* destination unwritten, no line read, no callback, the empty stream result.
C11_TransportFailureNoPartialState ==
    (Returned /\ exit = "transport") =>
        /\ err = TransportErr
        /\ res = NoRes
        /\ bodyLog = <<>>
        /\ dest = "untouched"
        /\ lines = <<>>
        /\ emitted = <<>>
        /\ output = EmptyResponse

C11_Witness ==
    /\ Returned /\ mode = "stream" /\ exit = "transport"
    /\ err = TransportErr
    /\ bodyLog = <<>>
    /\ output = EmptyResponse

\* C12: from the dispatch on, the request has the JSON Accept value and
\* 'Bearer <token>' as its only Authorization value, whatever the caller had
\* set; OpenAI-Organization is the configured id when that id is not empty and
\* is what the caller had put there when the id is empty.
C12_AuthHeadersAlwaysSet ==
    pc # "init" =>
        /\ reqHeader["Accept"] = << <<"application/json; charset=utf-8">> >>
        /\ reqHeader["Authorization"] = << <<"Bearer ", "sk-token">> >>
        /\ idOrg # <<>> => reqHeader["OpenAI-Organization"] = <<idOrg>>
        /\ idOrg = <<>>
              => reqHeader["OpenAI-Organization"] = callerHeader["OpenAI-Organization"]

C12_Witness ==
    /\ pc # "init" /\ mode = "stream"
    /\ callerHeader["Authorization"] = << <<"Basic ", "abc">> >>
    /\ reqHeader["Authorization"] = << <<"Bearer ", "sk-token">> >>
    /\ idOrg = <<>>
    /\ reqHeader["OpenAI-Organization"] = << <<"caller-org">> >>

\* a well-formed frame without a choices field, or whose first choice has no
\* text field
NoFirstFragment(l) ==
    LET d == ParsePayload(PayloadOf(l))
    IN  /\ ~d.fail
        /\ \/ ~d.hasChoices
           \/ Len(d.choices) > 0 /\ ~d.choices[1].hasText

EmittedBefore(k) == IF k = 1 THEN EmptyResponse ELSE emitted[k - 1]

\* C13: an accepted frame without a choices field, or whose first choice has
\* no text field, leaves the accumulated first-choice text as it was before
\* the frame.
C13_TextlessFrameKeepsText ==
    mode = "stream" =>
        \A k \in 1..Len(emitted) :
            (k <= Len(AcceptedFrames(lines)) /\ NoFirstFragment(AcceptedFrames(lines)[k]))
                => FirstText(emitted[k]) = FirstText(EmittedBefore(k))

\* C14: whenever sendStreamRequest returns after a success status, the result
\* is the value of the most recent callback invocation, or the empty result
\* when there was none.
C14_ResultWasEmitted ==
    LeftLoop => output = LastEmitted

\* C15: a response with a status outside 200..399 gives a non-nil status error
\* and nothing else: the body is read once and closed, the unary destination
\* is unwritten, no line is read, no callback runs, the stream result is empty.
C15_FailingStatusOnlyError ==
    (Returned /\ exit # "transport" /\ (res.StatusCode < 200 \/ res.StatusCode >= 400))
    => ( /\ err # Nil
         /\ err.kind = "status"
         /\ dest = "untouched"
         /\ lines = <<>>
         /\ emitted = <<>>
         /\ output = EmptyResponse
         /\ bodyLog = <<"read", "close">> )

C15_Witness ==
    /\ Returned /\ mode = "stream"
    /\ res.StatusCode = 500 /\ res.Body = "{}"
    /\ err = [kind |-> "status", text |-> <<"error, status code: ", "5", "0", "0">>]
    /\ emitted = <<>> /\ output = EmptyResponse

SentinelProcessed == Len(lines) > 0 /\ CarriesSentinel(Last(lines))

\* C16: the step that processes a sentinel line returns with a nil error and
\* the result last emitted, without a callback, and no step follows it: no
\* further line is read and no callback runs, whatever the body still holds.
C16_NothingAfterSentinel ==
    [][ /\ ~SentinelProcessed
        /\ (lines' # lines /\ CarriesSentinel(Last(lines')))
              => /\ pc' = "done"
                 /\ err' = Nil
                 /\ emitted' = emitted
                 /\ output' = output
                 /\ output = LastEmitted ]_vars

C16_Witness ==
    /\ SentinelProcessed
    /\ Len(lines) = 2 /\ Len(lines) < MaxLines
    /\ Len(emitted) = 1
    /\ err = Nil

\* C17: a body whose final line carries the sentinel ends the call with a nil
\* error, whether that line was terminated by a newline (it was processed) or
\* the stream closed right after it (it is the unterminated rest).
C17_SentinelWithoutNewline ==
    (LeftLoop /\ (SentinelProcessed \/ CarriesSentinel(tail)))
    => (err = Nil /\ output = LastEmitted)

\* C18: right after an accepted frame, a choice at index >= 1 that the frame
\* gives with a text has exactly that text (no carried prefix), while the
\* first choice has the concatenation of the fragments so far when every frame
\* so far carried a first-choice text. The value is the one handed to onData.
C18_OnlyFirstChoiceAccumulates ==
    (pc = "loop" /\ Len(lines) > 0 /\ IsAcceptedFrame(Last(lines))) =>
        LET d == ParsePayload(PayloadOf(Last(lines)))
            af == AcceptedFrames(lines)
        IN  /\ Len(emitted) > 0 /\ output = Last(emitted)
            /\ d.hasChoices => Len(output.Choices) = Len(d.choices)
            /\ \A i \in 2..Len(d.choices) :
                  d.choices[i].hasText => output.Choices[i].Text = d.choices[i].text
            /\ (\A j \in 1..Len(af) : CarriesFirstText(af[j]))
                  => FirstText(output) = ConcatFragments(af)

C18_Witness ==
    /\ mode = "stream" /\ pc = "loop"
    /\ lines = <<DataLine(FrameTwoChoices), DataLine(FrameTwoChoicesMore)>>
    /\ output = [Choices |-> <<[Text |-> <<"a", "c">>], [Text |-> <<"d">>]>>]
    /\ Len(emitted) = 2

\* C19: what a call does up to the consumption of a success body does not
\* depend on which of the two functions runs it: the headers sent, the error
\* of a transport failure, the status classification and the status error are
\* those either function computes from the same configuration, headers and
\* response.
C19_DispatchPathsAgree ==
    /\ pc # "init"
          => /\ reqHeader = sendRequest_Headers(callerHeader, idOrg)
             /\ reqHeader = sendStreamRequest_Headers(callerHeader, idOrg)
    /\ (Returned /\ exit = "transport") => err = TransportErr
    /\ (pc \notin {"init", "status"} /\ exit # "transport")
          => /\ (exit = "status") <=> sendRequest_IsStatusError(res.StatusCode)
             /\ (exit = "status") <=> sendStreamRequest_IsStatusError(res.StatusCode)
    /\ (Returned /\ exit = "status")
          => /\ err = sendRequest_ErrorDecoder(res.StatusCode, res.Body)
             /\ err = sendStreamRequest_ErrorDecoder(res.StatusCode, res.Body)

C19_Witness ==
    /\ Returned /\ mode = "unary" /\ exit = "status"
    /\ res.StatusCode = 100
    /\ res.Body = "{\"error\":{\"message\":\"rate limited\"}}"
    /\ err = sendStreamRequest_ErrorDecoder(100, res.Body)
    /\ reqHeader = sendStreamRequest_Headers(callerHeader, idOrg)
====
